---- MODULE Spec2Model ----
(***************************************************************************)
(* A model of rsfuzzymind (src/src/lib.rs): FuzzySet, FuzzyRule and        *)
(* InferenceEngine.                                                        *)
(*                                                                         *)
(* Numbers.  The program computes in f64.  Every domain point, membership  *)
(* value and weight of this model is a small integer, on which f64         *)
(* addition, subtraction, multiplication and comparison are exact; the     *)
(* only inexact f64 operation left is the final division, which is kept    *)
(* as the exact quotient, a normalised pair <<numerator, denominator>>.    *)
(* A sum that grows without end (a scan that never leaves its loop)        *)
(* saturates at +-AccLimit, as an f64 sum saturates at +-infinity, and a   *)
(* loop variable that decreases without end stops at XFloor, as an f64     *)
(* stops changing once the step is below its precision.                    *)
(***************************************************************************)
EXTENDS Integers, Sequences, FiniteSets, TLC

VARIABLES
    rules,   \* InferenceEngine.rules of the engine under test
    rules2,  \* the rules of a second engine, for the claims that compare two engines
    sets,    \* the FuzzySet objects that exist, in order of creation
    call,    \* the call in progress: its operation and arguments
    fr,      \* the locals, position and result of the call on the first receiver
    fr2      \* the same for the call on the second receiver

vars == <<rules, rules2, sets, call, fr, fr2>>

----------------------------------------------------------------------------
(* Bounds *)

MaxRules == 2      \* rules per engine
MaxVal == 10       \* largest domain point of a scan
XDepth == 2        \* how far below 0 a decreasing loop variable is followed
MaxSets == 4       \* FuzzySet objects alive at once

XFloor == 0 - XDepth
XDom == XFloor..MaxVal
AccLimit == 6 * MaxVal

MinVals == {0, 5}
MaxVals == {3, MaxVal}
Steps == {-1, 0, 1, 2, 3}
Weights == {-1, 0, 1, 2}
Inputs == {"empty", "lo", "hi"}   \* HashMap<String, f64> values: HashMap::new() and two others

----------------------------------------------------------------------------
(* f64 arithmetic on the model's values *)

f64max(a, b) == IF a >= b THEN a ELSE b
f64min(a, b) == IF a <= b THEN a ELSE b

Abs(n) == IF n < 0 THEN 0 - n ELSE n

RECURSIVE GCD(_, _)
GCD(a, b) == IF b = 0 THEN a ELSE GCD(b, a % b)

\* n / d for d # 0: the quotient as a pair in lowest terms with a positive denominator
Div(n, d) ==
    LET g == GCD(Abs(n), Abs(d))
        s == IF d < 0 THEN 0 - 1 ELSE 1
    IN  <<(s * n) \div g, (s * d) \div g>>

\* the f64 value of an integer literal or variable when it is returned
Num(n) == <<n, 1>>

\* p >= q, p > q on quotients (denominators are positive)
Geq(p, q) == p[1] * q[2] >= q[1] * p[2]

\* a sum that has left the range of the terminating scans stays at the limit
Sat(v) == IF v > AccLimit THEN AccLimit ELSE IF v < 0 - AccLimit THEN 0 - AccLimit ELSE v

\* x += step
\* (variant: the loop variable is not advanced)
AddStepFrozen(x, step) == x
AddStep(x, step) == IF x + step < XFloor THEN XFloor ELSE x + step

\* while x <= max_val
LoopCond(x, max_val) == x <= max_val

NoRet == <<>>

----------------------------------------------------------------------------
(* FuzzySet *)

\* The membership functions handed to FuzzySet::new by the caller.
BaseMu(name, x) ==
    CASE name = "FlatTop" -> IF 4 <= x /\ x <= 6 THEN 1 ELSE 0
      [] name = "Step"    -> IF x \in {1, 2} THEN 1 ELSE IF x \in {7, 8} THEN 2 ELSE 0
      [] name = "Neg"     -> 0 - 1
      [] name = "Saw"     -> IF x % 2 = 0 THEN 1 ELSE 0 - 1
      [] OTHER            -> 0

FuzzySetNew(name, membership_function) ==
    [name |-> name, membership_function |-> membership_function]

BaseSet(name) == FuzzySetNew(name, [x \in XDom |-> BaseMu(name, x)])

membership_degree(self, x) == self.membership_function[x]

\* (variant: min in place of max)
unionMin(self, other_set) ==
    FuzzySetNew("Union(" \o self.name \o ", " \o other_set.name \o ")",
        [x \in XDom |-> f64min(self.membership_function[x], other_set.membership_function[x])])
union(self, other_set) ==
    FuzzySetNew("Union(" \o self.name \o ", " \o other_set.name \o ")",
        [x \in XDom |-> f64max(self.membership_function[x], other_set.membership_function[x])])

intersection(self, other_set) ==
    FuzzySetNew("Intersection(" \o self.name \o ", " \o other_set.name \o ")",
        [x \in XDom |-> f64min(self.membership_function[x], other_set.membership_function[x])])

complement(self) ==
    FuzzySetNew("Complement(" \o self.name \o ")",
        [x \in XDom |-> 1 - self.membership_function[x]])

\* value / max(1.0, value): the divisor is 1 or value itself, so the quotient is exact
normalize(self) ==
    FuzzySetNew("Normalized(" \o self.name \o ")",
        [x \in XDom |-> LET value == self.membership_function[x]
                        IN  value \div f64max(1, value)])

IdleFrame == [pc |-> "idle"]

\* FuzzySet::centroid: the locals before the loop
centroid_init(min_val) ==
    [pc |-> "loop", x |-> min_val, numerator |-> 0, denominator |-> 0, ret |-> NoRet]

\* the value returned after the loop of centroid and of defuzzify_centroid
\* (variant: no fallback for a zero denominator)
CentroidResultNoCheck(numerator, denominator) ==
    IF denominator = 0 THEN Num(numerator) ELSE Div(numerator, denominator)
CentroidResult(numerator, denominator) ==
    IF denominator = 0 THEN Num(0) ELSE Div(numerator, denominator)

\* FuzzySet::centroid: one evaluation of the loop condition and what follows it
centroid_step(self, f, max_val, step) ==
    IF f.pc # "loop" THEN f
    ELSE IF LoopCond(f.x, max_val)
    THEN LET mu == membership_degree(self, f.x)
         IN  [f EXCEPT !.numerator = Sat(@ + f.x * mu),
                       !.denominator = Sat(@ + mu),
                       !.x = AddStep(@, step)]
    ELSE [f EXCEPT !.pc = "done", !.ret = CentroidResult(f.numerator, f.denominator)]

----------------------------------------------------------------------------
(* FuzzyRule *)

\* Result<String, FuzzySet>
Ok(priority) == [tag |-> "Ok", priority |-> priority]
Err(fuzzy_set) == [tag |-> "Err", fuzzy_set |-> fuzzy_set]

FuzzyRuleNew(condition, consequence, weight) ==
    [condition |-> condition, consequence |-> consequence, weight |-> weight]

None == [some |-> FALSE]
Some(result, weight) == [some |-> TRUE, result |-> result, weight |-> weight]

\* (variant: the condition is not consulted)
evaluateAlways(self, inputs) == Some(self.consequence[inputs], self.weight)
evaluate(self, inputs) ==
    IF self.condition[inputs]
    THEN Some(self.consequence[inputs], self.weight)
    ELSE None

----------------------------------------------------------------------------
(* InferenceEngine: defuzzification *)

RECURSIVE FilterMapErr(_, _)
FilterMapErr(rs, inputs) ==
    IF rs = <<>> THEN <<>>
    ELSE LET r == Head(rs).consequence[inputs]
         IN  (IF r.tag = "Err" THEN <<r.fuzzy_set>> ELSE <<>>) \o FilterMapErr(Tail(rs), inputs)

\* (variant: only the rules of positive weight are gathered)
RECURSIVE FilterMapErrMatched(_, _)
FilterMapErrMatched(rs, inputs) ==
    IF rs = <<>> THEN <<>>
    ELSE LET r == Head(rs).consequence[inputs]
         IN  (IF r.tag = "Err" /\ Head(rs).weight > 0 THEN <<r.fuzzy_set>> ELSE <<>>)
                 \o FilterMapErrMatched(Tail(rs), inputs)

\* every rule's consequence, evaluated on HashMap::new(), that is a fuzzy set
get_fuzzy_set_consequences_weighted(self_rules) == FilterMapErrMatched(self_rules, "empty")
get_fuzzy_set_consequences(self_rules) == FilterMapErr(self_rules, "empty")

\* fuzzy_sets.iter().map(|fs| fs.membership_degree(x)).fold(0.0, f64::max)
RECURSIVE Fold(_, _, _)
Fold(fuzzy_sets, x, acc) ==
    IF fuzzy_sets = <<>> THEN acc
    ELSE Fold(Tail(fuzzy_sets), x, f64max(acc, membership_degree(Head(fuzzy_sets), x)))

AggMu(fuzzy_sets, x) == Fold(fuzzy_sets, x, 0)

defuzzify_centroid_init(self_rules, min_val) ==
    [pc |-> "loop", fuzzy_sets |-> get_fuzzy_set_consequences(self_rules),
     x |-> min_val, numerator |-> 0, denominator |-> 0, ret |-> NoRet]

defuzzify_centroid_step(f, max_val, step) ==
    IF f.pc # "loop" THEN f
    ELSE IF LoopCond(f.x, max_val)
    THEN LET mu == AggMu(f.fuzzy_sets, f.x)
         IN  [f EXCEPT !.numerator = Sat(@ + f.x * mu),
                       !.denominator = Sat(@ + mu),
                       !.x = AddStep(@, step)]
    ELSE [f EXCEPT !.pc = "done", !.ret = CentroidResult(f.numerator, f.denominator)]

defuzzify_mom_init(self_rules, min_val) ==
    [pc |-> "loop", fuzzy_sets |-> get_fuzzy_set_consequences(self_rules),
     x |-> min_val, max_mu |-> 0, sum_x |-> 0, count |-> 0, ret |-> NoRet]

\* the body of defuzzify_mom's loop up to x += step
\* (variant: a tie resets the sum like a larger value)
MomUpdateGeq(f, mu) ==
    IF mu >= f.max_mu
    THEN [f EXCEPT !.max_mu = mu, !.sum_x = f.x, !.count = 1]
    ELSE f
MomUpdate(f, mu) ==
    IF mu > f.max_mu
    THEN [f EXCEPT !.max_mu = mu, !.sum_x = f.x, !.count = 1]
    ELSE IF mu = f.max_mu
    THEN [f EXCEPT !.sum_x = Sat(@ + f.x), !.count = Sat(@ + 1)]
    ELSE f

\* the value returned after the loop of defuzzify_mom
\* (variant: min_val, not 0.0, when no point was counted)
MomResultMin(f, min_val) == IF f.count = 0 THEN Num(min_val) ELSE Div(f.sum_x, f.count)
MomResult(f, min_val) == IF f.count = 0 THEN Num(0) ELSE Div(f.sum_x, f.count)

defuzzify_mom_step(f, min_val, max_val, step) ==
    IF f.pc # "loop" THEN f
    ELSE IF LoopCond(f.x, max_val)
    THEN [MomUpdate(f, AggMu(f.fuzzy_sets, f.x)) EXCEPT !.x = AddStep(@, step)]
    ELSE [f EXCEPT !.pc = "done", !.ret = MomResult(f, min_val)]

defuzzify_bisector_init(self_rules, min_val) ==
    [pc |-> "loop", fuzzy_sets |-> get_fuzzy_set_consequences(self_rules),
     x |-> min_val, total_area |-> 0, left_area |-> 0, bisector |-> min_val, ret |-> NoRet]

\* left_area >= total_area / 2.0 (halving is exact in f64)
\* (variant: the half must be exceeded)
HalfReachedStrict(left_area, total_area) == 2 * left_area > total_area
HalfReached(left_area, total_area) == 2 * left_area >= total_area

defuzzify_bisector_step(f, min_val, max_val, step) ==
    IF f.pc = "loop"
    THEN IF LoopCond(f.x, max_val)
         THEN [f EXCEPT !.total_area = Sat(@ + AggMu(f.fuzzy_sets, f.x) * step),
                        !.x = AddStep(@, step)]
         ELSE [f EXCEPT !.x = min_val, !.pc = "loop2"]
    ELSE IF f.pc = "loop2"
    THEN IF LoopCond(f.x, max_val)
         THEN LET left == Sat(f.left_area + AggMu(f.fuzzy_sets, f.x) * step)
              IN  IF HalfReached(left, f.total_area)
                  THEN [f EXCEPT !.left_area = left, !.bisector = f.x,
                                 !.pc = "done", !.ret = Num(f.x)]
                  ELSE [f EXCEPT !.left_area = left, !.x = AddStep(@, step)]
         ELSE [f EXCEPT !.pc = "done", !.ret = Num(f.bisector)]
    ELSE f

----------------------------------------------------------------------------
(* InferenceEngine: infer *)

priority_mapping(priority) ==
    CASE priority = "Urgent"          -> 3
      [] priority = "High Priority"   -> 2
      [] priority = "Medium Priority" -> 1
      [] OTHER                        -> 0

\* (variant: a boundary value falls to the lower category)
reverse_priority_mapping_strict(score) ==
    IF ~Geq(<<5, 2>>, score) THEN "Urgent"
    ELSE IF ~Geq(<<3, 2>>, score) THEN "High Priority"
    ELSE IF ~Geq(<<1, 2>>, score) THEN "Medium Priority"
    ELSE "Low Priority"
reverse_priority_mapping(score) ==
    IF Geq(score, <<5, 2>>) THEN "Urgent"
    ELSE IF Geq(score, <<3, 2>>) THEN "High Priority"
    ELSE IF Geq(score, <<1, 2>>) THEN "Medium Priority"
    ELSE "Low Priority"

\* the body of aggregate_results' loop
\* (variant: = in place of +=)
AccumulateLast(acc, result, weight) ==
    LET priority_value == IF result.tag = "Ok" THEN priority_mapping(result.priority) ELSE 0
    IN  [weighted_sum |-> priority_value * weight, total_weight |-> weight]
Accumulate(acc, result, weight) ==
    LET priority_value == IF result.tag = "Ok" THEN priority_mapping(result.priority) ELSE 0
    IN  [weighted_sum |-> acc.weighted_sum + priority_value * weight,
         total_weight |-> acc.total_weight + weight]

RECURSIVE AggregateLoop(_, _)
AggregateLoop(results, acc) ==
    IF results = <<>> THEN acc
    ELSE AggregateLoop(Tail(results),
                       Accumulate(acc, Head(results).result, Head(results).weight))

aggregate_results(results) ==
    IF results = <<>> THEN "Low Priority"
    ELSE LET acc == AggregateLoop(results, [weighted_sum |-> 0, total_weight |-> 0])
         IN  IF acc.total_weight > 0
             THEN reverse_priority_mapping(Div(acc.weighted_sum, acc.total_weight))
             ELSE "Low Priority"

\* the loop of infer: the matches, in the order of the rules
RECURSIVE InferLoop(_, _)
InferLoop(rs, inputs) ==
    IF rs = <<>> THEN <<>>
    ELSE LET e == evaluate(Head(rs), inputs)
         IN  (IF e.some THEN <<e>> ELSE <<>>) \o InferLoop(Tail(rs), inputs)

infer(self_rules, inputs) == aggregate_results(InferLoop(self_rules, inputs))

----------------------------------------------------------------------------
(* What the caller constructs *)

SeqsUpTo(S, n) == UNION {[1..k -> S] : k \in 0..n}

Always == [i \in Inputs |-> TRUE]
OnlyHi == [i \in Inputs |-> i = "hi"]

ConstCons(result) == [i \in Inputs |-> result]
\* a consequence that depends on the inputs: a fuzzy set on "hi", a label otherwise
HiCons == [i \in Inputs |-> IF i = "hi" THEN Err(BaseSet("Step")) ELSE Ok("Low Priority")]

\* the rules of the engines whose fuzzy output is defuzzified
DefuzzCons ==
    {ConstCons(Err(BaseSet(n))) : n \in {"FlatTop", "Step", "Neg"}}
        \cup {HiCons}
DefuzzRules ==
    {FuzzyRuleNew(Always, c, 1) : c \in DefuzzCons}
        \cup {FuzzyRuleNew(OnlyHi, c, 0) : c \in DefuzzCons}

\* a rule with the same consequence, the opposite condition and another weight
OtherRule(r) ==
    FuzzyRuleNew([i \in Inputs |-> ~r.condition[i]], r.consequence, 2 - 3 * r.weight)

\* the sets FuzzySet::centroid is called on
ScanSets ==
    {BaseSet(n) : n \in {"FlatTop", "Step", "Neg", "Saw", "Zero"}}
        \cup {normalize(BaseSet("Step"))}

\* the rules of the engines that infer
InferCons ==
    {ConstCons(Ok(p)) : p \in {"Urgent", "High Priority", "Medium Priority", "Low Priority"}}
        \cup {ConstCons(Err(BaseSet("FlatTop")))}
InferRules ==
    {FuzzyRuleNew(c, q, w) : c \in {Always, OnlyHi}, q \in InferCons, w \in Weights}

\* the same rules in every order
Reorderings(rs) ==
    {[i \in 1..Len(rs) |-> rs[p[i]]] : p \in Permutations(1..Len(rs))}

InitInfer ==
    /\ rules \in SeqsUpTo(InferRules, MaxRules)
    /\ rules2 \in Reorderings(rules)
    /\ sets = <<>>
    /\ call = [op |-> "idle"]
    /\ fr = IdleFrame
    /\ fr2 = IdleFrame

InitScanEngine ==
    /\ rules \in SeqsUpTo(DefuzzRules, MaxRules)
    /\ rules2 = [i \in 1..Len(rules) |-> OtherRule(rules[i])]
    /\ sets = <<>>

InitScanSet ==
    /\ rules = <<>>
    /\ rules2 = <<>>
    /\ sets \in {<<s>> : s \in ScanSets}

Init ==
    /\ InitScanEngine \/ InitScanSet
    /\ call = [op |-> "idle"]
    /\ fr = IdleFrame
    /\ fr2 = IdleFrame

----------------------------------------------------------------------------
(* The scans, one loop iteration at a time *)

ScanOps == {"centroid", "defuzzify_centroid", "defuzzify_mom", "defuzzify_bisector"}

ScanCall(op, min_val, max_val, step) ==
    [op |-> op, min_val |-> min_val, max_val |-> max_val, step |-> step]

\* set.centroid(min_val, max_val, step) on sets[1] is called
Centroid ==
    /\ call.op = "idle"
    /\ sets # <<>>
    /\ \E min_val \in MinVals, max_val \in MaxVals, step \in Steps :
          /\ call' = ScanCall("centroid", min_val, max_val, step)
          /\ fr' = centroid_init(min_val)
          /\ fr2' = IdleFrame
    /\ UNCHANGED <<rules, rules2, sets>>

\* engine.defuzzify_centroid(min_val, max_val, step) is called, on both engines
DefuzzifyCentroid ==
    /\ call.op = "idle"
    /\ sets = <<>>
    /\ \E min_val \in MinVals, max_val \in MaxVals, step \in Steps :
          /\ call' = ScanCall("defuzzify_centroid", min_val, max_val, step)
          /\ fr' = defuzzify_centroid_init(rules, min_val)
          /\ fr2' = defuzzify_centroid_init(rules2, min_val)
    /\ UNCHANGED <<rules, rules2, sets>>

\* engine.defuzzify_mom(min_val, max_val, step) is called, on both engines
DefuzzifyMom ==
    /\ call.op = "idle"
    /\ sets = <<>>
    /\ \E min_val \in MinVals, max_val \in MaxVals, step \in Steps :
          /\ call' = ScanCall("defuzzify_mom", min_val, max_val, step)
          /\ fr' = defuzzify_mom_init(rules, min_val)
          /\ fr2' = defuzzify_mom_init(rules2, min_val)
    /\ UNCHANGED <<rules, rules2, sets>>

\* engine.defuzzify_bisector(min_val, max_val, step) is called, on both engines
DefuzzifyBisector ==
    /\ call.op = "idle"
    /\ sets = <<>>
    /\ \E min_val \in MinVals, max_val \in MaxVals, step \in Steps :
          /\ call' = ScanCall("defuzzify_bisector", min_val, max_val, step)
          /\ fr' = defuzzify_bisector_init(rules, min_val)
          /\ fr2' = defuzzify_bisector_init(rules2, min_val)
    /\ UNCHANGED <<rules, rules2, sets>>

\* the next loop iteration (or the loop's exit) of the call in progress
StepFrame(f) ==
    CASE call.op = "centroid" ->
             IF f.pc = "idle" THEN f
             ELSE centroid_step(sets[1], f, call.max_val, call.step)
      [] call.op = "defuzzify_centroid" ->
             defuzzify_centroid_step(f, call.max_val, call.step)
      [] call.op = "defuzzify_mom" ->
             defuzzify_mom_step(f, call.min_val, call.max_val, call.step)
      [] call.op = "defuzzify_bisector" ->
             defuzzify_bisector_step(f, call.min_val, call.max_val, call.step)

Running(f) == f.pc \in {"loop", "loop2"}

ScanStep ==
    /\ call.op \in ScanOps
    /\ Running(fr) \/ Running(fr2)
    /\ fr' = StepFrame(fr)
    /\ fr2' = StepFrame(fr2)
    /\ UNCHANGED <<rules, rules2, sets, call>>

\* the call has returned and the caller goes on
Return ==
    /\ call.op # "idle"
    /\ ~Running(fr) /\ ~Running(fr2)
    /\ call' = [op |-> "idle"]
    /\ fr' = IdleFrame
    /\ fr2' = IdleFrame
    /\ UNCHANGED <<rules, rules2, sets>>

\* engine.infer(inputs), on both engines: the whole call
Infer ==
    /\ call.op = "idle"
    /\ \E inputs \in Inputs :
          /\ call' = [op |-> "infer", inputs |-> inputs]
          /\ fr' = [pc |-> "done", ret |-> infer(rules, inputs)]
          /\ fr2' = [pc |-> "done", ret |-> infer(rules2, inputs)]
    /\ UNCHANGED <<rules, rules2, sets>>

Next ==
    \/ Centroid
    \/ DefuzzifyCentroid
    \/ DefuzzifyMom
    \/ DefuzzifyBisector
    \/ ScanStep
    \/ Return

\* the scans of FuzzySet::centroid and of the three defuzzify_* methods
Spec == Init /\ [][Next]_vars

\* the same, with the running call always executing its next loop iteration
SpecFair == Spec /\ WF_vars(ScanStep)

NextInfer == Infer \/ Return

\* infer on an engine and on a reordering of its rules
SpecInfer == InitInfer /\ [][NextInfer]_vars

----------------------------------------------------------------------------
(* The set operators: each call creates a FuzzySet beside its operands *)

AlgebraSets == {BaseSet(n) : n \in {"FlatTop", "Step", "Neg"}}

InitSets ==
    /\ rules = <<>>
    /\ rules2 = <<>>
    /\ sets \in SeqsUpTo(AlgebraSets, 2) \ {<<>>}
    /\ call = [op |-> "idle"]
    /\ fr = IdleFrame
    /\ fr2 = IdleFrame

\* the call op on sets[self] (and sets[other_set]) has returned the new set
Created(op, self, other_set, new_set) ==
    /\ Len(sets) < MaxSets
    /\ sets' = Append(sets, new_set)
    /\ call' = [op |-> op, self |-> self, other_set |-> other_set]
    /\ UNCHANGED <<rules, rules2, fr, fr2>>

Union ==
    \E self \in 1..Len(sets), other_set \in 1..Len(sets) :
        Created("union", self, other_set, union(sets[self], sets[other_set]))

Intersection ==
    \E self \in 1..Len(sets), other_set \in 1..Len(sets) :
        Created("intersection", self, other_set, intersection(sets[self], sets[other_set]))

Complement ==
    \E self \in 1..Len(sets) :
        Created("complement", self, self, complement(sets[self]))

Normalize ==
    \E self \in 1..Len(sets) :
        Created("normalize", self, self, normalize(sets[self]))

NextSets == Union \/ Intersection \/ Complement \/ Normalize

SpecSets == InitSets /\ [][NextSets]_vars

----------------------------------------------------------------------------
(* The mathematics the claims are stated in *)

\* the sample points min, min + step, ... <= max of a scan
Points(min_val, max_val, step) ==
    IF min_val > max_val \/ step <= 0 THEN {}
    ELSE {x \in min_val..max_val : (x - min_val) % step = 0}

SetMax(S) == CHOOSE m \in S : \A n \in S : n <= m
SetMin(S) == CHOOSE m \in S : \A n \in S : m <= n

RECURSIVE Sum(_, _)
Sum(f, S) ==
    IF S = {} THEN 0
    ELSE LET x == CHOOSE y \in S : TRUE IN f[x] + Sum(f, S \ {x})

\* the fuzzy sets among the consequences of an engine's rules
FuzzyConsequences(rs) ==
    {rs[i].consequence["empty"].fuzzy_set :
        i \in {j \in 1..Len(rs) : rs[j].consequence["empty"].tag = "Err"}}

\* the aggregated membership: the pointwise maximum, starting from 0
AggRef(rs, x) == SetMax({0} \cup {s.membership_function[x] : s \in FuzzyConsequences(rs)})

IsFlatTop(rs) == \A x \in XDom : AggRef(rs, x) = (IF 4 <= x /\ x <= 6 THEN 1 ELSE 0)

CallPoints == Points(call.min_val, call.max_val, call.step)

Done(op) == call.op = op /\ fr.pc = "done"

\* sum(x * mu(x)) / sum(mu(x)) over the sample points P, and 0.0 for a zero denominator
CentroidRef(mu, P) ==
    LET num == Sum([x \in P |-> x * mu[x]], P)
        den == Sum(mu, P)
    IN  IF den = 0 THEN Num(0) ELSE Div(num, den)

\* |q - 5| <= step
WithinStepOfFive(q, step) == Abs(q[1] - 5 * q[2]) <= step * q[2]

C3_MeanOfMaximum ==
    Done("defuzzify_mom") =>
        LET P == CallPoints
            mu == [x \in P |-> AggRef(rules, x)]
            top == {x \in P : mu[x] = SetMax({mu[y] : y \in P})}
        IN  /\ fr.ret = IF P = {} THEN Num(0)
                        ELSE Div(Sum([x \in top |-> x], top), Cardinality(top))
            /\ (IsFlatTop(rules) /\ call.min_val = 0 /\ call.max_val = 10 /\ call.step = 1)
                   => fr.ret = Num(5)

\* Step scanned with step 1: the ties at 1 and 2 are discarded for the maxima 7 and 8
C3_Witness ==
    /\ Done("defuzzify_mom")
    /\ call.step = 1
    /\ fr.ret = <<15, 2>>

DefuzzOps == {"defuzzify_centroid", "defuzzify_mom", "defuzzify_bisector"}

\* the aggregated membership is 0 at every sample point (there may be none)
ZeroMass == \A x \in CallPoints : AggRef(rules, x) = 0

\* C7 as stated: with zero membership mass or an empty domain each defuzzify_*
\* method returns 0.0 or min_val.
C7_AsStated ==
    (call.op \in DefuzzOps /\ fr.pc = "done" /\ ZeroMass)
        => fr.ret \in {Num(0), Num(call.min_val)}

\* C7, amended: with zero membership mass or an empty domain defuzzify_centroid
\* returns 0.0 and defuzzify_bisector returns min_val; defuzzify_mom returns 0.0 on
\* an empty domain and the mean of all the sample points otherwise.
C7_Fallbacks ==
    /\ (Done("defuzzify_centroid") /\ ZeroMass) => fr.ret = Num(0)
    /\ (Done("defuzzify_bisector") /\ ZeroMass) => fr.ret = Num(call.min_val)
    /\ (Done("defuzzify_mom") /\ ZeroMass) =>
           fr.ret = IF CallPoints = {} THEN Num(0)
                    ELSE Div(Sum([x \in CallPoints |-> x], CallPoints),
                             Cardinality(CallPoints))

C7_Witness ==
    /\ Done("defuzzify_mom")
    /\ ZeroMass
    /\ CallPoints # {}
    /\ fr.ret \notin {Num(0), Num(call.min_val)}

\* C10: two engines whose rules have the same consequences and different conditions
\* and weights return the same defuzzify_* results, and the aggregated membership
\* they scan is never below 0.
C10_ConsequencesOnly ==
    call.op \in DefuzzOps =>
        /\ \A i \in 1..Len(rules) :
              /\ rules2[i].consequence = rules[i].consequence
              /\ rules2[i].condition # rules[i].condition
              /\ rules2[i].weight # rules[i].weight
        /\ fr.pc = "done" => (fr2.pc = "done" /\ fr2.ret = fr.ret)
        /\ \A x \in XDom : AggMu(fr.fuzzy_sets, x) >= 0 /\ AggMu(fr2.fuzzy_sets, x) >= 0

\* a rule of weight 0 whose condition holds on no scan brings its negative set, and
\* another rule the set Step
C10_Witness ==
    /\ Done("defuzzify_centroid")
    /\ fr.ret = <<11, 2>>
    /\ \E i \in 1..Len(rules) :
          /\ rules[i].weight = 0
          /\ rules[i].consequence["empty"] = Err(BaseSet("Neg"))

\* C8: a scan returns when step > 0 and when min > max; with step <= 0 and
\* min <= max the scan of centroid, defuzzify_centroid and defuzzify_mom never
\* returns.
ScanReturns ==
    (call.op \in ScanOps /\ (call.step > 0 \/ call.min_val > call.max_val))
        ~> (fr.pc = "done")

ScanNeverReturns ==
    []((/\ call.op \in {"centroid", "defuzzify_centroid", "defuzzify_mom"}
        /\ call.step <= 0
        /\ call.min_val <= call.max_val) => fr.pc # "done")

\* with min > max the loop body never runs: the call returns with x still min_val
LoopBodySkipped ==
    []((/\ call.op \in ScanOps
        /\ call.min_val > call.max_val
        /\ fr.pc = "done") => fr.x = call.min_val)

----------------------------------------------------------------------------
(* infer *)

Matched == {i \in 1..Len(rules) : rules[i].condition[call.inputs]}

TotalWeight == Sum([i \in Matched |-> rules[i].weight], Matched)

\* the score of a consequence: 3, 2, 1 for the three named labels, 0 for any other
\* label and for a fuzzy set
Score(result) ==
    IF result.tag = "Err" THEN 0
    ELSE IF result.priority = "Urgent" THEN 3
    ELSE IF result.priority = "High Priority" THEN 2
    ELSE IF result.priority = "Medium Priority" THEN 1
    ELSE 0

WeightedSum ==
    Sum([i \in Matched |-> Score(rules[i].consequence[call.inputs]) * rules[i].weight],
        Matched)

\* the category of the average n / d, for d # 0
Category(n, d) ==
    LET ge(a, b) == IF d > 0 THEN b * n >= a * d ELSE b * n <= a * d   \* n / d >= a / b
    IN  IF ge(5, 2) THEN "Urgent"
        ELSE IF ge(3, 2) THEN "High Priority"
        ELSE IF ge(1, 2) THEN "Medium Priority"
        ELSE "Low Priority"

\* C1: infer returns "Low Priority" when no rule's condition holds and when the
\* matched weights sum to 0.
C1_LowPriorityDefault ==
    (Done("infer") /\ (Matched = {} \/ TotalWeight = 0)) => fr.ret = "Low Priority"

\* two matched Urgent rules whose weights cancel
C1_Witness ==
    /\ Done("infer")
    /\ Cardinality(Matched) = 2
    /\ \A i \in Matched : rules[i].consequence[call.inputs] = Ok("Urgent") /\ rules[i].weight # 0
    /\ TotalWeight = 0
    /\ fr.ret = "Low Priority"

\* C2 as stated: with a match and a nonzero total weight, infer returns the category
\* of the weighted average.
C2_AsStated ==
    (Done("infer") /\ Matched # {} /\ TotalWeight # 0)
        => fr.ret = Category(WeightedSum, TotalWeight)

\* C2, amended: with a match and a positive total weight infer returns the category
\* of the weighted average, a boundary value belonging to the higher category; with
\* a negative total weight it returns "Low Priority".
C2_WeightedAverage ==
    /\ (Done("infer") /\ Matched # {} /\ TotalWeight > 0)
           => fr.ret = Category(WeightedSum, TotalWeight)
    /\ (Done("infer") /\ Matched # {} /\ TotalWeight < 0) => fr.ret = "Low Priority"

\* an average of exactly 2.5, from an Urgent and a High Priority rule of equal weight
C2_Witness ==
    /\ Done("infer")
    /\ TotalWeight > 0
    /\ 2 * WeightedSum = 5 * TotalWeight
    /\ fr.ret = "Urgent"

----------------------------------------------------------------------------
(* The set operators *)

\* the name a derived set carries tells which sets it was derived from
IsUnionOf(s, a, b) == s.name = "Union(" \o a.name \o ", " \o b.name \o ")"
IsIntersectionOf(s, a, b) == s.name = "Intersection(" \o a.name \o ", " \o b.name \o ")"
IsComplementOf(s, a) == s.name = "Complement(" \o a.name \o ")"

SameMembership(s, t) ==
    \A x \in XDom : membership_degree(s, x) = membership_degree(t, x)

Objects == {sets[i] : i \in 1..Len(sets)}

\* the set the last call created, and its operands
New == sets[Len(sets)]
Self == sets[call.self]
Other == sets[call.other_set]

DoubleComplementReached ==
    /\ call.op = "complement"
    /\ IsComplementOf(Self, BaseSet("Step"))

====
